---- MODULE Spec2Model ----
(***************************************************************************)
(* Model of the IniFile configuration store (src/src/ini_file.cpp).        *)
(*                                                                         *)
(* A std::string is a sequence of one-character strings, so that trim,     *)
(* find, substr and the line reader act on characters as the code does.    *)
(* A file on disk is the sequence of its characters, "\n" included.        *)
(* _data and _index are functions from section names to functions from     *)
(* key names to values (std::map / std::unordered_map).                    *)
(***************************************************************************)
EXTENDS Integers, Sequences, FiniteSets, TLC

VARIABLES
    _filename,        \* IniFile::_filename; "" when no path is set
    _data,            \* IniFile::_data: section -> key -> value
    _lines,           \* IniFile::_lines: the raw line buffer
    _index,           \* IniFile::_index: section -> key -> line number
    _pendingChanges,  \* the global _pendingChanges flag
    disk,             \* the file system: path -> characters of the file, or Absent
    result,           \* the last call: its name, arguments, outcome and return value
    ioLog,            \* what the last call did to the file system, in order
    persisted,        \* history: _data as of the last successful load or save
    edits             \* history: how many mutator calls have been made

vars == <<_filename, _data, _lines, _index, _pendingChanges, disk, result, ioLog,
          persisted, edits>>

-----------------------------------------------------------------------------
(* std::string primitives *)

npos == -1

Min(a, b) == IF a < b THEN a ELSE b

\* str.substr(pos, n), zero-based, clipped at the end of str
substr(str, pos, n) == SubSeq(str, pos + 1, Min(pos + n, Len(str)))

\* str.substr(pos): the rest of str from pos
substr_from(str, pos) == SubSeq(str, pos + 1, Len(str))

find_first_of(str, chars) ==
    IF \E i \in 1..Len(str) : str[i] \in chars
    THEN (CHOOSE i \in 1..Len(str) :
              str[i] \in chars /\ \A j \in 1..(i - 1) : str[j] \notin chars) - 1
    ELSE npos

find_first_not_of(str, chars) ==
    IF \E i \in 1..Len(str) : str[i] \notin chars
    THEN (CHOOSE i \in 1..Len(str) :
              str[i] \notin chars /\ \A j \in 1..(i - 1) : str[j] \in chars) - 1
    ELSE npos

find_last_not_of(str, chars) ==
    IF \E i \in 1..Len(str) : str[i] \notin chars
    THEN (CHOOSE i \in 1..Len(str) :
              str[i] \notin chars /\ \A j \in (i + 1)..Len(str) : str[j] \in chars) - 1
    ELSE npos

\* str.find(ch)
find(str, ch) == find_first_of(str, {ch})

\* the characters trim strips: " \t\r\n"
TrimChars == {" ", "\t", "\r", "\n"}

trim(str) ==
    LET first == find_first_not_of(str, TrimChars)
        last == find_last_not_of(str, TrimChars)
    IN  IF first = npos THEN <<>> ELSE substr(str, first, last - first + 1)

is_comment(line) == line = <<>> \/ line[1] = ";" \/ line[1] = "#"

\* trimmed.front() == '[' && trimmed.back() == ']' (trimmed is not empty)
\* a header told by its first character alone
is_header_by_first(trimmed) == trimmed[1] = "["

is_header(trimmed) == trimmed[1] = "[" /\ trimmed[Len(trimmed)] = "]"

\* trimmed.substr(1, trimmed.size() - 2)
header_name(trimmed) == substr(trimmed, 1, Len(trimmed) - 2)

-----------------------------------------------------------------------------
(* maps *)

EmptyMap == [x \in {} |-> <<>>]

\* m[section][key] = value, creating the section when absent
map_put(m, section, key, value) ==
    LET inner == IF section \in DOMAIN m THEN m[section] ELSE EmptyMap
        inner2 == [k \in DOMAIN inner \cup {key} |-> IF k = key THEN value ELSE inner[k]]
    IN  [s \in DOMAIN m \cup {section} |-> IF s = section THEN inner2 ELSE m[s]]

\* m.count(section) && m.at(section).count(key)
map_has(m, section, key) == section \in DOMAIN m /\ key \in DOMAIN m[section]

-----------------------------------------------------------------------------
(* IniFile::load *)

\* while (std::getline(file, line)): the lines of a file's characters. The
\* last line needs no "\n"; a trailing "\n" starts no further line.
RECURSIVE getlines(_)
getlines(content) ==
    IF content = <<>> THEN <<>>
    ELSE LET nl == find(content, "\n")
         IN  IF nl = npos THEN <<content>>
             ELSE <<substr(content, 0, nl)>> \o getlines(substr_from(content, nl + 1))

\* the value of a key-value line: the text after the first '=', trimmed, cut
\* at the first ';' or '#' and trimmed again
\* a value cut at its comment and not trimmed again
parse_value_cut_only(trimmed, pos) ==
    LET value == trim(substr_from(trimmed, pos + 1))
        comment_pos == find_first_of(value, {";", "#"})
    IN  IF comment_pos # npos THEN substr(value, 0, comment_pos) ELSE value

parse_value(trimmed, pos) ==
    LET value == trim(substr_from(trimmed, pos + 1))
        comment_pos == find_first_of(value, {";", "#"})
    IN  IF comment_pos # npos THEN trim(substr(value, 0, comment_pos)) ELSE value

\* the key of a key-value line: the text before the first '=', trimmed
parse_key(trimmed, pos) == trim(substr(trimmed, 0, pos))

\* an entry recorded under the first line that states it, later ones ignored
index_put_first(index, section, key, line_num) ==
    IF map_has(index, section, key) THEN index
    ELSE map_put(index, section, key, line_num)

\* _index[current_section][key] = line_num;
index_put(index, section, key, line_num) == map_put(index, section, key, line_num)

\* one pass of load's while loop; st holds the members being rebuilt and the
\* loop's locals current_section and line_num
\* a load that enters the section in _data at its header line
load_line_section_at_header(st, line) ==
    LET trimmed == trim(line)
        pushed == [st EXCEPT !.lines = Append(@, line), !.line_num = @ + 1]
    IN  IF trimmed = <<>> \/ is_comment(trimmed) THEN pushed
        ELSE IF is_header(trimmed)
        THEN [pushed EXCEPT
                 !.current_section = header_name(trimmed),
                 !.data = IF header_name(trimmed) \in DOMAIN @ THEN @
                          ELSE [s \in DOMAIN @ \cup {header_name(trimmed)} |->
                                   IF s \in DOMAIN @ THEN @[s] ELSE EmptyMap]]
        ELSE LET pos == find(trimmed, "=")
             IN  IF pos = npos THEN pushed
                 ELSE LET key == parse_key(trimmed, pos)
                          value == parse_value(trimmed, pos)
                      IN  IF key # <<>>
                          THEN [pushed EXCEPT
                                   !.data = map_put(@, st.current_section, key, value),
                                   !.index = index_put(@, st.current_section, key, st.line_num)]
                          ELSE pushed

load_line(st, line) ==
    LET trimmed == trim(line)
        pushed == [st EXCEPT !.lines = Append(@, line), !.line_num = @ + 1]
    IN  IF trimmed = <<>> \/ is_comment(trimmed) THEN pushed
        ELSE IF is_header(trimmed)
        THEN [pushed EXCEPT !.current_section = header_name(trimmed)]
        ELSE LET pos == find(trimmed, "=")
             IN  IF pos = npos THEN pushed
                 ELSE LET key == parse_key(trimmed, pos)
                          value == parse_value(trimmed, pos)
                      IN  IF key # <<>>
                          THEN [pushed EXCEPT
                                   !.data = map_put(@, st.current_section, key, value),
                                   !.index = index_put(@, st.current_section, key, st.line_num)]
                          ELSE pushed

RECURSIVE load_loop(_, _, _)
load_loop(fileLines, i, st) ==
    IF i > Len(fileLines) THEN st
    ELSE load_loop(fileLines, i + 1, load_line(st, fileLines[i]))

\* the tables load builds from an opened file: it clears _data, _lines and
\* _index, then reads the file line by line
load_tables(content) ==
    load_loop(getlines(content), 1,
              [data |-> EmptyMap, lines |-> <<>>, index |-> EmptyMap,
               current_section |-> <<>>, line_num |-> 0])

-----------------------------------------------------------------------------
(* IniFile::save *)

\* a save that never leaves the section it starts in
save_section_kept(current_section, raw) == current_section

\* current_section after save has passed a raw line
save_section(current_section, raw) ==
    LET trimmed == trim(raw)
    IN  IF trimmed = <<>> \/ is_comment(trimmed) THEN current_section
        ELSE IF is_header(trimmed) THEN header_name(trimmed)
        ELSE current_section

\* an entry written without the spaces around '='
key_value_line_tight(key, value) == key \o <<"=">> \o value

\* key << " = " << value
key_value_line(key, value) == key \o <<" ", "=", " ">> \o value

\* what save inserts into the stream for one raw line, before the "\n"
save_line(data, current_section, raw) ==
    LET trimmed == trim(raw)
    IN  IF trimmed = <<>> \/ is_comment(trimmed) THEN raw
        ELSE IF is_header(trimmed) THEN raw
        ELSE LET pos == find(trimmed, "=")
             IN  IF pos # npos
                 THEN LET key == parse_key(trimmed, pos)
                      IN  IF key # <<>> /\ map_has(data, current_section, key)
                          THEN key_value_line(key, data[current_section][key])
                          ELSE raw
                 ELSE raw

\* the for loop of save from line i on: the texts written, one per raw line
RECURSIVE save_loop(_, _, _, _)
save_loop(lines, data, i, current_section) ==
    IF i > Len(lines) THEN <<>>
    ELSE <<save_line(data, current_section, lines[i])>>
             \o save_loop(lines, data, i + 1, save_section(current_section, lines[i]))

\* entry lines for the given (section, key) pairs of data, in some order
RECURSIVE entry_lines(_, _)
entry_lines(data, pairs) ==
    IF pairs = {} THEN <<>>
    ELSE LET p == CHOOSE q \in pairs : TRUE
         IN  <<key_value_line(p[2], data[p[1]][p[2]])>> \o entry_lines(data, pairs \ {p})

\* a save that, after the raw lines, writes an entry for every key of the
\* store that no raw line states (what the comment above IniFile::save
\* announces for new keys)
save_writes_appending(lines, data) ==
    save_loop(lines, data, 1, <<>>)
        \o entry_lines(data, {p \in UNION {{<<sec, k>> : k \in DOMAIN data[sec]} :
                                               sec \in DOMAIN data} :
                                  ~map_has(_index, p[1], p[2])})

\* the texts save writes, in order
save_writes(lines, data) == save_loop(lines, data, 1, <<>>)

\* the characters of a file made of the given texts, each followed by "\n"
RECURSIVE stream_of(_)
stream_of(texts) ==
    IF texts = <<>> THEN <<>> ELSE Head(texts) \o <<"\n">> \o stream_of(Tail(texts))

-----------------------------------------------------------------------------
(* conversions between values and their text *)

\* a boolean stored as a digit
bool_to_string_digit(value) == IF value THEN <<"1">> ELSE <<"0">>

bool_to_string(value) ==
    IF value THEN <<"t", "r", "u", "e">> ELSE <<"f", "a", "l", "s", "e">>

UpperCase == <<"A", "B", "C", "D", "E", "F", "G", "H", "I", "J", "K", "L", "M",
               "N", "O", "P", "Q", "R", "S", "T", "U", "V", "W", "X", "Y", "Z">>

LowerCase == <<"a", "b", "c", "d", "e", "f", "g", "h", "i", "j", "k", "l", "m",
               "n", "o", "p", "q", "r", "s", "t", "u", "v", "w", "x", "y", "z">>

LowerOf == [c \in {UpperCase[i] : i \in 1..26} |->
               LowerCase[CHOOSE i \in 1..26 : UpperCase[i] = c]]

\* ::tolower on one character
tolower(c) == IF c \in DOMAIN LowerOf THEN LowerOf[c] ELSE c

string_to_bool(value) ==
    LET lower_value == [i \in 1..Len(value) |-> tolower(value[i])]
    IN  \/ lower_value = <<"t", "r", "u", "e">>
        \/ lower_value = <<"t">>
        \/ lower_value = <<"1">>

Digits == <<"0", "1", "2", "3", "4", "5", "6", "7", "8", "9">>

ValueOfDigit == [c \in {Digits[d] : d \in 1..10} |-> (CHOOSE d \in 1..10 : Digits[d] = c) - 1]

IsDigit(c) == c \in DOMAIN ValueOfDigit

DigitVal(c) == ValueOfDigit[c]

\* the decimal digits of a natural number
RECURSIVE nat_digits(_)
nat_digits(n) ==
    IF n < 10 THEN <<Digits[n + 1]>> ELSE nat_digits(n \div 10) \o <<Digits[(n % 10) + 1]>>

\* std::to_string(int)
int_to_string(value) ==
    IF value < 0 THEN <<"-">> \o nat_digits(0 - value) ELSE nat_digits(value)

\* std::to_string(double), which prints as "%f": six digits after the point.
\* A double is given by its value in millionths (1.23 is 1230000).
double_to_string(micro) ==
    LET mag == IF micro < 0 THEN 0 - micro ELSE micro
        frac == nat_digits(mag % 1000000)
        pad == [i \in 1..(6 - Len(frac)) |-> "0"]
    IN  (IF micro < 0 THEN <<"-">> ELSE <<>>)
            \o nat_digits(mag \div 1000000) \o <<".">> \o pad \o frac

\* the characters std::isspace accepts, skipped by stoi and stod (the
\* vertical tab, which has no escape here, is left out)
SpaceChars == {" ", "\t", "\n", "\r", "\f"}

\* the largest int; the smallest is -INT_MAX - 1
INT_MAX == 2147483647

\* the digits of str from position i (one-based) on, accumulated as a number
\* that is never positive, so that the smallest int is reached without
\* overflow; Overflow once the number leaves the int range
RECURSIVE stoi_digits(_, _, _)
stoi_digits(str, i, acc) ==
    IF i > Len(str) \/ ~IsDigit(str[i]) THEN [overflow |-> FALSE, acc |-> acc]
    ELSE LET d == DigitVal(str[i])
             floor == (INT_MAX \div 10)
         IN  IF acc < 0 - floor \/ (acc = 0 - floor /\ d > 8)
             THEN [overflow |-> TRUE, acc |-> 0]
             ELSE stoi_digits(str, i + 1, acc * 10 - d)

\* std::stoi(value): leading white space, an optional sign, then decimal
\* digits; what follows the digits is ignored
stoi(str) ==
    LET start == find_first_not_of(str, SpaceChars)
        s == IF start = npos THEN <<>> ELSE substr_from(str, start)
        signed == s # <<>> /\ s[1] \in {"+", "-"}
        negative == s # <<>> /\ s[1] = "-"
        first == IF signed THEN 2 ELSE 1
    IN  IF first > Len(s) \/ ~IsDigit(s[first])
        THEN [status |-> "invalid_argument", value |-> 0]
        ELSE LET r == stoi_digits(s, first, 0)
             IN  IF r.overflow \/ (~negative /\ r.acc < 0 - INT_MAX)
                 THEN [status |-> "out_of_range", value |-> 0]
                 ELSE [status |-> "ok", value |-> IF negative THEN r.acc ELSE 0 - r.acc]

\* how many digits str starts with
RECURSIVE digit_run(_)
digit_run(str) ==
    IF str = <<>> \/ ~IsDigit(Head(str)) THEN 0 ELSE 1 + digit_run(Tail(str))

\* the number a run of digits denotes, held at ExpCap once it is that large
\* (an exponent that large is out of a double's range whatever the digits)
ExpCap == 100000

RECURSIVE capped_number(_, _)
capped_number(digits, acc) ==
    IF digits = <<>> THEN acc
    ELSE IF acc >= ExpCap THEN ExpCap
    ELSE capped_number(Tail(digits), acc * 10 + DigitVal(Head(digits)))

\* the leading zeros of a run of digits
RECURSIVE leading_zeros(_)
leading_zeros(digits) ==
    IF digits = <<>> \/ Head(digits) # "0" THEN 0 ELSE 1 + leading_zeros(Tail(digits))

\* DBL_MAX is 1.7976931348623157e308 and DBL_MIN, the least normal double,
\* 2.2250738585072014e-308: their decimal exponents, and the first digits at
\* which a number of that exponent rounds out of the range
DBL_MAX_10_EXP == 308

DBL_MIN_LEAD_EXP == -308

DBL_MAX_DIGITS ==
    <<"1", "7", "9", "7", "6", "9", "3", "1", "3", "4", "8", "6", "2", "3", "1", "5", "8">>

DBL_MIN_DIGITS ==
    <<"2", "2", "2", "5", "0", "7", "3", "8", "5", "8", "5", "0", "7", "2", "0", "1", "4">>

\* 0.a < 0.b for two runs of digits read as decimal fractions
RECURSIVE digits_less(_, _)
digits_less(a, b) ==
    IF b = <<>> THEN FALSE
    ELSE IF a = <<>> THEN \E i \in 1..Len(b) : b[i] # "0"
    ELSE IF Head(a) # Head(b) THEN DigitVal(Head(a)) < DigitVal(Head(b))
    ELSE digits_less(Tail(a), Tail(b))

\* strtod reports ERANGE, which stod turns into std::out_of_range, for a
\* number too large for a double and for one below the normal range (glibc
\* reports the subnormal and the zero result alike)
stod_out_of_range(digits, x) ==
    \/ x > DBL_MAX_10_EXP
    \/ x = DBL_MAX_10_EXP /\ ~digits_less(digits, DBL_MAX_DIGITS)
    \/ x < DBL_MIN_LEAD_EXP
    \/ x = DBL_MIN_LEAD_EXP /\ digits_less(digits, DBL_MIN_DIGITS)

\* the only element of a one-element set
The(S) == CHOOSE x \in S : TRUE

\* stod, first step: the sign, and the text after leading white space and sign
stod_sign(str) ==
    LET start == find_first_not_of(str, SpaceChars)
        s0 == IF start = npos THEN <<>> ELSE substr_from(str, start)
        signed == s0 # <<>> /\ s0[1] \in {"+", "-"}
    IN  [negative |-> s0 # <<>> /\ s0[1] = "-",
         text |-> IF signed THEN Tail(s0) ELSE s0]

\* stod, second step: the digits before and after the point, and where the
\* mantissa ends in s
stod_mantissa(s) ==
    LET nInt == digit_run(s)
        hasPoint == nInt < Len(s) /\ s[nInt + 1] = "."
        nFrac == IF hasPoint THEN digit_run(substr_from(s, nInt + 1)) ELSE 0
    IN  [nInt |-> nInt, nFrac |-> nFrac,
         end |-> nInt + (IF hasPoint THEN 1 + nFrac ELSE 0)]

\* stod, third step: the exponent written after the mantissa, 0 if there is
\* none ("e" without digits is not an exponent)
stod_exponent(s, mantEnd) ==
    LET hasE == mantEnd < Len(s) /\ s[mantEnd + 1] \in {"e", "E"}
        eSigned == hasE /\ mantEnd + 1 < Len(s) /\ s[mantEnd + 2] \in {"+", "-"}
        eFirst == mantEnd + (IF eSigned THEN 3 ELSE 2)
        eDigits == IF hasE THEN substr_from(s, eFirst - 1) ELSE <<>>
        expMag == capped_number(SubSeq(eDigits, 1, digit_run(eDigits)), 0)
    IN  IF eSigned /\ s[mantEnd + 2] = "-" THEN 0 - expMag ELSE expMag

\* stod, last step: the value of the digits sig, whose first digit has weight
\* 10^x once the leading zeros lz are dropped
stod_value(negative, sig, lz, x) ==
    IF lz = Len(sig)
    THEN [status |-> "ok",
          value |-> [negative |-> negative, digits |-> <<"0">>, exp10 |-> 0]]
    ELSE IF stod_out_of_range(SubSeq(sig, lz + 1, Len(sig)), x)
    THEN [status |-> "out_of_range", value |-> 0]
    ELSE [status |-> "ok",
          value |-> [negative |-> negative,
                     digits |-> SubSeq(sig, lz + 1, Len(sig)), exp10 |-> x]]

stod_number(negative, s, m, exp) ==
    LET word == [i \in 1..Min(3, Len(s)) |-> tolower(s[i])]
        sig == SubSeq(s, 1, m.nInt) \o SubSeq(s, m.nInt + 2, m.nInt + 1 + m.nFrac)
    IN  IF word \in {<<"i", "n", "f">>, <<"n", "a", "n">>}
        THEN [status |-> "ok",
              value |-> [negative |-> negative, digits |-> word, exp10 |-> 0]]
        ELSE IF m.nInt + m.nFrac = 0
        THEN [status |-> "invalid_argument", value |-> 0]
        ELSE The({stod_value(negative, sig, lz, m.nInt - 1 - lz + exp) :
                      lz \in {leading_zeros(sig)}})

\* std::stod(value): leading white space, an optional sign, then "inf" or
\* "nan" in any case, or decimal digits with an optional point and an
\* optional exponent; what follows is ignored. The value is kept as its sign,
\* its digits and its decimal exponent; hexadecimal floats are not told from
\* a decimal zero followed by ignored text.
stod(str) ==
    The({The({The({stod_number(p.negative, p.text, m, e) :
                      e \in {stod_exponent(p.text, m.end)}}) :
                 m \in {stod_mantissa(p.text)}}) :
            p \in {stod_sign(str)}})

-----------------------------------------------------------------------------
(* accessors: what a call returns or throws in the current state *)

\* the value of a call that returns nothing or throws
Void == "void"

\* a lookup with one failure for a missing section and a missing key
get_value_merged(section, key) ==
    IF section \notin DOMAIN _data \/ key \notin DOMAIN _data[section]
    THEN [status |-> "KeyNotFound", value |-> Void]
    ELSE [status |-> "ok", value |-> _data[section][key]]

get_value(section, key) ==
    IF section \notin DOMAIN _data
    THEN [status |-> "SectionNotFound", value |-> Void]
    ELSE IF key \notin DOMAIN _data[section]
    THEN [status |-> "KeyNotFound", value |-> Void]
    ELSE [status |-> "ok", value |-> _data[section][key]]

get_string_value(section, key) == get_value(section, key)

\* the catch clauses around stoi and stod: each standard exception becomes a
\* runtime_error of its own
numeric_error(status) ==
    IF status = "invalid_argument" THEN "InvalidFormat" ELSE "OutOfRange"

\* an integer getter that answers 0 for a text stoi rejects
get_int_value_or_zero(section, key) ==
    LET got == get_value(section, key)
    IN  IF got.status # "ok" THEN got
        ELSE LET r == stoi(got.value)
             IN  IF r.status = "ok" THEN r ELSE [status |-> "ok", value |-> 0]

get_int_value(section, key) ==
    LET got == get_value(section, key)
    IN  IF got.status # "ok" THEN got
        ELSE LET r == stoi(got.value)
             IN  IF r.status = "ok" THEN r
                 ELSE [status |-> numeric_error(r.status), value |-> Void]

get_double_value(section, key) ==
    LET got == get_value(section, key)
    IN  IF got.status # "ok" THEN got
        ELSE LET r == stod(got.value)
             IN  IF r.status = "ok" THEN r
                 ELSE [status |-> numeric_error(r.status), value |-> Void]

get_bool_value(section, key) ==
    LET got == get_value(section, key)
    IN  IF got.status # "ok" THEN got
        ELSE [status |-> "ok", value |-> string_to_bool(got.value)]

-----------------------------------------------------------------------------
(* the file system and the inputs of the calls *)

NoArg == <<>>

Call(op, section, key, arg, status, value) ==
    [op |-> op, section |-> section, key |-> key, arg |-> arg,
     status |-> status, value |-> value]

NoFile == [exists |-> FALSE, content |-> <<>>]

FileOf(content) == [exists |-> TRUE, content |-> content]

OpenRead(path, ok) == [ev |-> "open_read", path |-> path, ok |-> ok, text |-> <<>>]

OpenWrite(path, ok) == [ev |-> "open_write", path |-> path, ok |-> ok, text |-> <<>>]

Write(path, text) == [ev |-> "write", path |-> path, ok |-> TRUE, text |-> text]

-----------------------------------------------------------------------------
(* load, save and set_filename *)

\* load() with _filename = filename; granted says whether the file system
\* lets the file be opened. The outcome and the members as load leaves them.
load_effect(filename, granted) ==
    IF filename = ""
    THEN [status |-> "ConfigError", io |-> <<>>,
          data |-> _data, lines |-> _lines, index |-> _index]
    ELSE IF ~(granted /\ disk[filename].exists)
    THEN [status |-> "IOError", io |-> <<OpenRead(filename, FALSE)>>,
          data |-> _data, lines |-> _lines, index |-> _index]
    ELSE LET t == load_tables(disk[filename].content)
         IN  [status |-> "ok", io |-> <<OpenRead(filename, TRUE)>>,
              data |-> t.data, lines |-> t.lines, index |-> t.index]

\* a save that goes to the file system without looking at _filename: no file
\* has the empty name, so the open fails
save_effect_unchecked(granted) ==
    IF _filename = "" \/ ~granted
    THEN [status |-> "IOError", io |-> <<OpenWrite(_filename, FALSE)>>, disk |-> disk]
    ELSE LET texts == save_writes(_lines, _data)
         IN  [status |-> "ok",
              io |-> <<OpenWrite(_filename, TRUE)>>
                        \o [i \in 1..Len(texts) |-> Write(_filename, texts[i])],
              disk |-> [disk EXCEPT ![_filename] = FileOf(stream_of(texts))]]

\* save(); granted says whether the file system lets the file be opened for
\* writing. The outcome and the file system as save leaves it.
save_effect(granted) ==
    IF _filename = ""
    THEN [status |-> "ConfigError", io |-> <<>>, disk |-> disk]
    ELSE IF ~granted
    THEN [status |-> "IOError", io |-> <<OpenWrite(_filename, FALSE)>>, disk |-> disk]
    ELSE LET texts == save_writes(_lines, _data)
         IN  [status |-> "ok",
              io |-> <<OpenWrite(_filename, TRUE)>>
                        \o [i \in 1..Len(texts) |-> Write(_filename, texts[i])],
              disk |-> [disk EXCEPT ![_filename] = FileOf(stream_of(texts))]]

load(granted) ==
    LET r == load_effect(_filename, granted)
    IN  /\ _data' = r.data
        /\ _lines' = r.lines
        /\ _index' = r.index
        /\ persisted' = IF r.status = "ok" THEN r.data ELSE persisted
        /\ result' = Call("load", NoArg, NoArg, NoArg, r.status,
                          IF r.status = "ok" THEN TRUE ELSE Void)
        /\ ioLog' = r.io
        /\ UNCHANGED <<_filename, _pendingChanges, disk, edits>>

\* a set_filename that takes the new path only when its load succeeds
set_filename_checked(filename, granted) ==
    LET r == load_effect(filename, granted)
    IN  /\ _filename' = IF r.status = "ok" THEN filename ELSE _filename
        /\ _data' = r.data
        /\ _lines' = r.lines
        /\ _index' = r.index
        /\ persisted' = IF r.status = "ok" THEN r.data ELSE persisted
        /\ result' = Call("set_filename", NoArg, NoArg, filename, r.status, Void)
        /\ ioLog' = r.io
        /\ UNCHANGED <<_pendingChanges, disk, edits>>

\* _filename = filename; load();
set_filename(filename, granted) ==
    LET r == load_effect(filename, granted)
    IN  /\ _filename' = filename
        /\ _data' = r.data
        /\ _lines' = r.lines
        /\ _index' = r.index
        /\ persisted' = IF r.status = "ok" THEN r.data ELSE persisted
        /\ result' = Call("set_filename", NoArg, NoArg, filename, r.status, Void)
        /\ ioLog' = r.io
        /\ UNCHANGED <<_pendingChanges, disk, edits>>

save(granted) ==
    LET r == save_effect(granted)
    IN  /\ disk' = r.disk
        /\ persisted' = IF r.status = "ok" THEN _data ELSE persisted
        /\ result' = Call("save", NoArg, NoArg, NoArg, r.status,
                          IF r.status = "ok" THEN TRUE ELSE Void)
        /\ ioLog' = r.io
        /\ UNCHANGED <<_filename, _data, _lines, _index, _pendingChanges, edits>>

\* a commit that clears the flag whether or not its save succeeded
commit_flag_cleared(pending, saveStatus) == FALSE

\* the flag after commit_changes, given how its save ended (not reached when
\* the flag is clear)
commit_flag(pending, saveStatus) ==
    IF pending /\ saveStatus = "ok" THEN FALSE ELSE pending

commit_changes(granted) ==
    IF _pendingChanges
    THEN LET r == save_effect(granted)
         IN  /\ disk' = r.disk
             /\ persisted' = IF r.status = "ok" THEN _data ELSE persisted
             /\ _pendingChanges' = commit_flag(_pendingChanges, r.status)
             /\ result' = Call("commit_changes", NoArg, NoArg, NoArg, r.status, Void)
             /\ ioLog' = r.io
             /\ UNCHANGED <<_filename, _data, _lines, _index, edits>>
    ELSE /\ result' = Call("commit_changes", NoArg, NoArg, NoArg, "ok", Void)
         /\ ioLog' = <<>>
         /\ UNCHANGED <<_filename, _data, _lines, _index, _pendingChanges,
                        disk, persisted, edits>>

-----------------------------------------------------------------------------
(* mutators; a run makes at most MaxEdits mutator calls *)

MaxEdits == 1

set_string_value(section, key, value) ==
    /\ edits < MaxEdits
    /\ edits' = edits + 1
    /\ _data' = map_put(_data, section, key, value)
    /\ _pendingChanges' = TRUE
    /\ result' = Call("set_string_value", section, key, value, "ok", Void)
    /\ ioLog' = <<>>
    /\ UNCHANGED <<_filename, _lines, _index, disk, persisted>>

set_bool_value(section, key, value) ==
    /\ edits < MaxEdits
    /\ edits' = edits + 1
    /\ _data' = map_put(_data, section, key, bool_to_string(value))
    /\ _pendingChanges' = TRUE
    /\ result' = Call("set_bool_value", section, key, value, "ok", Void)
    /\ ioLog' = <<>>
    /\ UNCHANGED <<_filename, _lines, _index, disk, persisted>>

set_int_value(section, key, value) ==
    /\ edits < MaxEdits
    /\ edits' = edits + 1
    /\ _data' = map_put(_data, section, key, int_to_string(value))
    /\ _pendingChanges' = TRUE
    /\ result' = Call("set_int_value", section, key, value, "ok", Void)
    /\ ioLog' = <<>>
    /\ UNCHANGED <<_filename, _lines, _index, disk, persisted>>

set_double_value(section, key, value) ==
    /\ edits < MaxEdits
    /\ edits' = edits + 1
    /\ _data' = map_put(_data, section, key, double_to_string(value))
    /\ _pendingChanges' = TRUE
    /\ result' = Call("set_double_value", section, key, value, "ok", Void)
    /\ ioLog' = <<>>
    /\ UNCHANGED <<_filename, _lines, _index, disk, persisted>>

setData(data) ==
    /\ edits < MaxEdits
    /\ edits' = edits + 1
    /\ _data' = data
    /\ result' = Call("setData", NoArg, NoArg, data, "ok", Void)
    /\ ioLog' = <<>>
    /\ UNCHANGED <<_filename, _lines, _index, _pendingChanges, disk, persisted>>

-----------------------------------------------------------------------------
(* calls of the accessors: the state is left alone, the outcome is recorded *)

Returned(op, section, key, r) ==
    /\ result' = Call(op, section, key, NoArg, r.status, r.value)
    /\ ioLog' = <<>>
    /\ UNCHANGED <<_filename, _data, _lines, _index, _pendingChanges, disk, persisted,
                   edits>>

call_get_value(section, key) ==
    Returned("get_value", section, key, get_value(section, key))

call_get_string_value(section, key) ==
    Returned("get_string_value", section, key, get_string_value(section, key))

call_get_int_value(section, key) ==
    Returned("get_int_value", section, key, get_int_value(section, key))

call_get_double_value(section, key) ==
    Returned("get_double_value", section, key, get_double_value(section, key))

call_get_bool_value(section, key) ==
    Returned("get_bool_value", section, key, get_bool_value(section, key))

call_getData ==
    Returned("getData", NoArg, NoArg, [status |-> "ok", value |-> _data])

-----------------------------------------------------------------------------
(* inputs *)

Paths == {"a.ini", "b.ini"}

\* (section, key) pairs the callers name
Targets == {<<<<"A">>, <<"k">>>>, <<<<"A">>, <<"n">>>>, <<<<"N">>, <<"k">>>>}

StringInputs == {<<"w">>, <<"x", ";", "y">>}

BoolInputs == BOOLEAN

IntInputs == {30, -7}

\* doubles in millionths: 1.23
DoubleInputs == {1230000}

\* no section; section A with one key; section A with no key
DataInputs ==
    {EmptyMap, map_put(EmptyMap, <<"A">>, <<"k">>, <<"w">>), [s \in {<<"A">>} |-> EmptyMap]}

\*   [A]
\*   k = v ; c
\*
\*   ; note
\*   [B]
\*   k=x
MainFile ==
    <<"[", "A", "]", "\n",
      "k", " ", "=", " ", "v", " ", ";", " ", "c", "\n",
      "\n",
      ";", " ", "n", "o", "t", "e", "\n",
      "[", "B", "]", "\n",
      "k", "=", "x", "\n">>

\*   k=1
\*   [A]
\*   n=30abc
\*   k = 99999999999      (no final "\n")
NumbersFile ==
    <<"k", "=", "1", "\n",
      "[", "A", "]", "\n",
      "n", "=", "3", "0", "a", "b", "c", "\n",
      "k", " ", "=", " ", "9", "9", "9", "9", "9", "9", "9", "9", "9", "9", "9">>

\*   [A]
\*   k=-2147483648
\*   n=+2147483648x
LimitsFile ==
    <<"[", "A", "]", "\n",
      "k", "=", "-", "2", "1", "4", "7", "4", "8", "3", "6", "4", "8", "\n",
      "n", "=", "+", "2", "1", "4", "7", "4", "8", "3", "6", "4", "8", "x", "\n">>

\*   [A]
\*   ; none
\*   =v
\*   [N]
\*   k = 1
HeaderOnlyFile ==
    <<"[", "A", "]", "\n",
      ";", " ", "n", "o", "n", "e", "\n",
      "=", "v", "\n",
      "[", "N", "]", "\n",
      "k", " ", "=", " ", "1", "\n">>

\* the lines the files of the load/save runs are made of
LinePool ==
    { <<"\t">>,
      <<";", "k", "=", "v">>,
      <<"[", "A", "]">>,
      <<" ", "[", "]", "\t">>,
      <<"[", "A", "]", ";">>,
      <<"k", "=", "v">>,
      <<" ", "k", " ", "=", "w", "=", "x", " ", "#", "c", "\r">>,
      <<"=", "v">>,
      <<"[", "=", "]", "#">> }

MaxLines == 3

\* every sequence of at most n lines of the pool
RECURSIVE LineSeqs(_)
LineSeqs(n) ==
    IF n = 0 THEN {<<>>}
    ELSE LET shorter == LineSeqs(n - 1)
         IN  shorter \cup {Append(ls, l) : ls \in {x \in shorter : Len(x) = n - 1},
                                           l \in LinePool}

RoundTripFiles == {stream_of(ls) : ls \in LineSeqs(MaxLines)}

DiskWith(content) == [p \in Paths |-> IF p = "a.ini" THEN FileOf(content) ELSE NoFile]

-----------------------------------------------------------------------------
(* specifications *)

\* a default-constructed IniFile, _pendingChanges as initialised, and a disk
Constructed ==
    /\ _filename = ""
    /\ _data = EmptyMap
    /\ _lines = <<>>
    /\ _index = EmptyMap
    /\ _pendingChanges = FALSE
    /\ result = Call("IniFile", NoArg, NoArg, NoArg, "ok", Void)
    /\ ioLog = <<>>
    /\ persisted = EmptyMap
    /\ edits = 0

\* the store in use: every call that can change the store or the disk
Init == Constructed /\ disk = DiskWith(MainFile)

Next ==
    \/ \E filename \in Paths, granted \in BOOLEAN : set_filename(filename, granted)
    \/ \E granted \in BOOLEAN : load(granted)
    \/ \E granted \in BOOLEAN : save(granted)
    \/ \E granted \in BOOLEAN : commit_changes(granted)
    \/ \E t \in Targets, v \in StringInputs : set_string_value(t[1], t[2], v)
    \/ \E t \in Targets, v \in BoolInputs : set_bool_value(t[1], t[2], v)
    \/ \E t \in Targets, v \in IntInputs : set_int_value(t[1], t[2], v)
    \/ \E t \in Targets, v \in DoubleInputs : set_double_value(t[1], t[2], v)
    \/ \E d \in DataInputs : setData(d)

Spec == Init /\ [][Next]_vars

\* the accessors, over what set_filename and the mutators put in the store
InitGet ==
    Constructed /\ disk \in {DiskWith(MainFile), DiskWith(NumbersFile), DiskWith(LimitsFile),
                           DiskWith(HeaderOnlyFile)}

NextGet ==
    \/ \E filename \in {"a.ini", ""} : set_filename(filename, TRUE)
    \/ \E t \in Targets, v \in StringInputs : set_string_value(t[1], t[2], v)
    \/ \E t \in Targets, v \in BoolInputs : set_bool_value(t[1], t[2], v)
    \/ \E t \in Targets, v \in IntInputs : set_int_value(t[1], t[2], v)
    \/ \E t \in Targets, v \in DoubleInputs : set_double_value(t[1], t[2], v)
    \/ \E d \in DataInputs : setData(d)
    \/ \E t \in Targets : call_get_value(t[1], t[2])
    \/ \E t \in Targets : call_get_string_value(t[1], t[2])
    \/ \E t \in Targets : call_get_int_value(t[1], t[2])
    \/ \E t \in Targets : call_get_double_value(t[1], t[2])
    \/ \E t \in Targets : call_get_bool_value(t[1], t[2])
    \/ call_getData

SpecGet == InitGet /\ [][NextGet]_vars

\* load and save alone, over every file of at most MaxLines pool lines, on a
\* file system that grants every open
InitRT == Constructed /\ disk \in {DiskWith(f) : f \in RoundTripFiles}

NextRT ==
    \/ set_filename("a.ini", TRUE)
    \/ load(TRUE)
    \/ save(TRUE)

SpecRT == InitRT /\ [][NextRT]_vars

-----------------------------------------------------------------------------
(* what the claims speak of, said without the loops of load and save *)

\* the (section, key) pairs of a map
Pairs(m) == UNION {{<<s, k>> : k \in DOMAIN m[s]} : s \in DOMAIN m}

Chars(str) == {str[i] : i \in 1..Len(str)}

\* how load and save class a raw line
LineKind(raw) ==
    LET t == trim(raw)
    IN  IF t = <<>> THEN "blank"
        ELSE IF t[1] \in {";", "#"} THEN "comment"
        ELSE IF t[1] = "[" /\ t[Len(t)] = "]" THEN "header"
        ELSE IF "=" \notin Chars(t) THEN "plain"
        ELSE IF Chars(SubSeq(t, 1, find(t, "="))) \subseteq TrimChars THEN "nokey"
        ELSE "entry"

\* the key and the value an entry line states
KeyOf(raw) == LET t == trim(raw) IN trim(SubSeq(t, 1, find(t, "=")))

RECURSIVE CutAtComment(_)
CutAtComment(str) ==
    IF str = <<>> \/ Head(str) \in {";", "#"} THEN <<>>
    ELSE <<Head(str)>> \o CutAtComment(Tail(str))

ValueOf(raw) ==
    LET t == trim(raw) IN trim(CutAtComment(SubSeq(t, find(t, "=") + 2, Len(t))))

\* the section line i (one-based) lies in: the name of the last header above it
SectionAt(lines, i) ==
    LET above == {j \in 1..(i - 1) : LineKind(lines[j]) = "header"}
    IN  IF above = {} THEN <<>>
        ELSE LET j == CHOOSE x \in above : \A y \in above : y <= x
                 t == trim(lines[j])
             IN  SubSeq(t, 2, Len(t) - 1)

\* line i is an entry line for key under section
IsEntryFor(lines, i, section, key) ==
    /\ LineKind(lines[i]) = "entry"
    /\ KeyOf(lines[i]) = key
    /\ SectionAt(lines, i) = section

HasEntryLine(lines, section, key) ==
    \E i \in 1..Len(lines) : IsEntryFor(lines, i, section, key)

\* the last entry line for the key and section of entry line i
LastLineFor(lines, i) ==
    CHOOSE j \in 1..Len(lines) :
        /\ IsEntryFor(lines, j, SectionAt(lines, i), KeyOf(lines[i]))
        /\ \A x \in (j + 1)..Len(lines) :
               ~IsEntryFor(lines, x, SectionAt(lines, i), KeyOf(lines[i]))

Normalized(key, value) == key \o <<" ", "=", " ">> \o value

\* the last call opened the file for writing and wrote it
Wrote == ioLog # <<>> /\ ioLog[1].ev = "open_write" /\ ioLog[1].ok

\* the texts the last call wrote, in order
Written == [i \in 1..(Len(ioLog) - 1) |-> ioLog[i + 1].text]

LoadedOK == result.op \in {"load", "set_filename"} /\ result.status = "ok"

SavedOK == result.op = "save" /\ result.status = "ok"

-----------------------------------------------------------------------------
(* claims about load and save as functions of the file: SpecRT *)

\* C1 (as stated): after load() and save() with no mutation in between, save
\* has written one line per raw line, in order; each blank, comment, header,
\* no-'=' and empty-key line as it was, and each entry line as `key = value`
\* of its own key and its own parsed value.
C1_OwnValueRoundTrip ==
    SavedOK =>
        /\ Len(Written) = Len(_lines)
        /\ getlines(disk[_filename].content) = Written
        /\ \A i \in 1..Len(_lines) :
               Written[i] = IF LineKind(_lines[i]) = "entry"
                            THEN Normalized(KeyOf(_lines[i]), ValueOf(_lines[i]))
                            ELSE _lines[i]

\* C1 (amended): as above, but an entry line is written as `key = value` of
\* its own key and the value parsed from the last entry line for that key in
\* its section (its own value when the key is not repeated there).
C1_RoundTripFidelity ==
    SavedOK =>
        /\ Len(Written) = Len(_lines)
        /\ getlines(disk[_filename].content) = Written
        /\ \A i \in 1..Len(_lines) :
               Written[i] = IF LineKind(_lines[i]) = "entry"
                            THEN Normalized(KeyOf(_lines[i]),
                                            ValueOf(_lines[LastLineFor(_lines, i)]))
                            ELSE _lines[i]

\* a save of three lines: a comment kept as it was and two entry lines for one
\* key of one section with two values
C1_Witness ==
    /\ SavedOK
    /\ Len(_lines) = 3
    /\ LineKind(_lines[1]) = "comment"
    /\ IsEntryFor(_lines, 2, <<>>, <<"k">>)
    /\ IsEntryFor(_lines, 3, <<>>, <<"k">>)
    /\ ValueOf(_lines[2]) # ValueOf(_lines[3])
    /\ Written[3] # _lines[3]

\* C2: load(); save(); load() with no mutation in between yields the Entry
\* mapping of the first load(): a load that follows a save leaves _data as it
\* was.
C2_IdempotentReload ==
    [][(SavedOK /\ result'.op = "load" /\ result'.status = "ok") => _data' = _data]_vars

\* C10: right after load, _data holds for each key of each section the value
\* of its last entry line and _index the zero-based number of that line, which
\* is below the number of raw lines; _index and _data have the same (section,
\* key) pairs, and every entry line is recorded.
C10_LastWriteWins ==
    LoadedOK =>
        /\ Pairs(_index) = Pairs(_data)
        /\ \A i \in 1..Len(_lines) :
               LineKind(_lines[i]) = "entry" =>
                   <<SectionAt(_lines, i), KeyOf(_lines[i])>> \in Pairs(_data)
        /\ \A p \in Pairs(_index) :
               LET n == _index[p[1]][p[2]]
               IN  /\ n < Len(_lines)
                   /\ IsEntryFor(_lines, n + 1, p[1], p[2])
                   /\ \A j \in (n + 2)..Len(_lines) : ~IsEntryFor(_lines, j, p[1], p[2])
                   /\ _data[p[1]][p[2]] = ValueOf(_lines[n + 1])

\* a load of a file that states a key, re-opens the section with a later
\* header of the same name and states the key again with another value
C10_Witness ==
    /\ LoadedOK
    /\ Len(_lines) = 3
    /\ IsEntryFor(_lines, 1, <<>>, <<"k">>)
    /\ LineKind(_lines[2]) = "header"
    /\ IsEntryFor(_lines, 3, <<>>, <<"k">>)
    /\ ValueOf(_lines[1]) # ValueOf(_lines[3])
    /\ _index[<<>>][<<"k">>] = 2

\* the trimmed line starts with '[' and ends with ']'
Bracketed(raw) ==
    LET t == trim(raw) IN t # <<>> /\ t[1] = "[" /\ t[Len(t)] = "]"

\* the trimmed line starts with '[' and does not end with ']'
OpenBracketOnly(raw) ==
    LET t == trim(raw) IN t # <<>> /\ t[1] = "[" /\ t[Len(t)] # "]"

\* the text between the brackets of the last bracketed line above line i, the
\* empty name when there is none
SectionBefore(lines, i) ==
    LET above == {j \in 1..(i - 1) : Bracketed(lines[j])}
    IN  IF above = {} THEN <<>>
        ELSE LET t == trim(lines[CHOOSE x \in above : \A y \in above : y <= x])
             IN  [n \in 1..(Len(t) - 2) |-> t[n + 1]]

\* the trimmed line is no blank, no comment and no bracketed line, and has a
\* non-empty key before its first '='
StatesKey(raw) ==
    LET t == trim(raw)
    IN  /\ t # <<>>
        /\ t[1] \notin {";", "#"}
        /\ ~Bracketed(raw)
        /\ \E e \in 1..Len(t) :
               /\ t[e] = "="
               /\ \A j \in 1..(e - 1) : t[j] # "="
               /\ \E j \in 1..(e - 1) : t[j] \notin TrimChars

\* some (section, key) of _index points at line i (one-based)
Indexed(i) == \E p \in Pairs(_index) : _index[p[1]][p[2]] = i - 1

\* the sections load assigns: every indexed line states a key and lies under
\* the section of the last bracketed line above it (the empty one before any);
\* every line that states a key has it in _data under that section
SectionsFollowHeaders ==
    /\ \A p \in Pairs(_index) :
           LET i == _index[p[1]][p[2]] + 1
           IN  /\ i \in 1..Len(_lines)
               /\ StatesKey(_lines[i])
               /\ p[1] = SectionBefore(_lines, i)
    /\ \A i \in 1..Len(_lines) :
           StatesKey(_lines[i]) =>
               map_has(_data, SectionBefore(_lines, i), KeyOf(_lines[i]))
    /\ DOMAIN _data = DOMAIN _index

\* C14 (as stated): right after load, the sections are assigned as above, and
\* no line that starts with '[' without ending with ']' has added an entry.
C14_OpenBracketAddsNothing ==
    LoadedOK =>
        /\ SectionsFollowHeaders
        /\ \A i \in 1..Len(_lines) : OpenBracketOnly(_lines[i]) => ~Indexed(i)

\* C14 (amended): right after load, the sections are assigned as above; a
\* line that starts with '[' without ending with ']' is no header (the lines
\* below it stay in the section they were in) and adds an entry exactly when
\* it has a non-empty key before a '=', as any other line does.
C14_SectionAssignment ==
    LoadedOK =>
        /\ SectionsFollowHeaders
        /\ \A i \in 1..Len(_lines) :
               (OpenBracketOnly(_lines[i]) /\ Indexed(i)) => StatesKey(_lines[i])

\* a load of `[A]`, `[=]#` and `k=v`: the second line is no header and both
\* keys, `[` and `k`, are under A
C14_Witness ==
    /\ LoadedOK
    /\ Len(_lines) = 3
    /\ Bracketed(_lines[1])
    /\ OpenBracketOnly(_lines[2])
    /\ Indexed(2)
    /\ DOMAIN _data = {<<"A">>}
    /\ DOMAIN _data[<<"A">>] = {<<"[">>, <<"k">>}

\* the place of the first '=' of a text that has one
FirstEquals(t) == CHOOSE e \in 1..Len(t) : t[e] = "=" /\ \A j \in 1..(e - 1) : t[j] # "="

\* a text up to its first ';' or '#'
BeforeMarker(t) ==
    LET marks == {m \in 1..Len(t) : t[m] \in {";", "#"}}
    IN  IF marks = {} THEN t
        ELSE SubSeq(t, 1, (CHOOSE m \in marks : \A x \in marks : m <= x) - 1)

\* the key and the value the claim draws from a line that has a '='
ExtractedKey(raw) == LET t == trim(raw) IN trim(SubSeq(t, 1, FirstEquals(t) - 1))

ExtractedValue(raw) ==
    LET t == trim(raw) IN trim(BeforeMarker(trim(SubSeq(t, FirstEquals(t) + 1, Len(t)))))

\* no blank, no comment, no bracketed line, and with a '='
HasEquals(raw) ==
    LET t == trim(raw)
    IN  t # <<>> /\ t[1] \notin {";", "#"} /\ ~Bracketed(raw) /\ "=" \in Chars(t)

\* C15: right after load, every stored pair is the key and the value drawn
\* from the line _index gives for it: the trimmed text before the first '=',
\* and the trimmed text after it cut at the first ';' or '#' and trimmed
\* again; a line whose key is empty records nothing; so no stored value holds
\* ';' or '#' or starts or ends with white space, and no stored key is empty,
\* holds '=' or starts with ';' or '#'.
C15_KeyValueExtraction ==
    LoadedOK =>
        /\ \A p \in Pairs(_data) :
               /\ map_has(_index, p[1], p[2])
               /\ _index[p[1]][p[2]] < Len(_lines)
               /\ LET raw == _lines[_index[p[1]][p[2]] + 1]
                      value == _data[p[1]][p[2]]
                  IN  /\ HasEquals(raw)
                      /\ p[2] = ExtractedKey(raw)
                      /\ value = ExtractedValue(raw)
                      /\ Chars(value) \cap {";", "#"} = {}
                      /\ value # <<>> =>
                             (value[1] \notin TrimChars /\ value[Len(value)] \notin TrimChars)
                      /\ p[2] # <<>>
                      /\ "=" \notin Chars(p[2])
                      /\ p[2][1] \notin {";", "#"}
        /\ \A i \in 1..Len(_lines) :
               HasEquals(_lines[i]) =>
                   IF ExtractedKey(_lines[i]) = <<>> THEN ~Indexed(i)
                   ELSE map_has(_data, SectionBefore(_lines, i), ExtractedKey(_lines[i]))

\* a load of ` k =w=x #c` (with a carriage return) and `=v`: the first stores
\* "w=x" under k, the second nothing
C15_Witness ==
    /\ LoadedOK
    /\ Len(_lines) = 2
    /\ Pairs(_data) = {<<<<>>, <<"k">>>>}
    /\ _data[<<>>][<<"k">>] = <<"w", "=", "x">>
    /\ "#" \in Chars(_lines[1])
    /\ _lines[2] = <<"=", "v">>

-----------------------------------------------------------------------------
(* claims about the store in use: Spec *)

\* C3: whenever save has written the file, every raw line that load and save
\* take for an entry line (not blank, not a comment, not a header, with a
\* non-empty key before its first '=') and whose key is in _data under the
\* section of the last header above it has been written as `key = v`, v the
\* value _data holds for that key in that section: not the raw value, not the
\* value of the key in another section, and without the line's comment.
C3_SectionScopedPatching ==
    Wrote =>
        /\ Len(Written) = Len(_lines)
        /\ \A i \in 1..Len(_lines) :
               (/\ LineKind(_lines[i]) = "entry"
                /\ map_has(_data, SectionAt(_lines, i), KeyOf(_lines[i])))
               => Written[i] = Normalized(KeyOf(_lines[i]),
                                          _data[SectionAt(_lines, i)][KeyOf(_lines[i])])

\* set_bool_value("A", "k", true) and a save: `k = v ; c` under [A] is written
\* as `k = true`, and `k=x` under [B] as `k = x`
C3_Witness ==
    /\ Wrote
    /\ Len(_lines) = 6
    /\ map_has(_data, <<"A">>, <<"k">>)
    /\ map_has(_data, <<"B">>, <<"k">>)
    /\ _lines[2] = <<"k", " ", "=", " ", "v", " ", ";", " ", "c">>
    /\ _data[<<"A">>][<<"k">>] = <<"t", "r", "u", "e">>
    /\ Written[2] = <<"k", " ", "=", " ", "t", "r", "u", "e">>
    /\ _data[<<"B">>][<<"k">>] = <<"x">>
    /\ Written[6] = <<"k", " ", "=", " ", "x">>

\* the (section, key) pairs of _data that no raw line states
NewPairs == {p \in Pairs(_data) : ~HasEntryLine(_lines, p[1], p[2])}

Setters == {"set_string_value", "set_bool_value", "set_int_value", "set_double_value"}

\* what the last call has left: a setter its key, readable through get_value
\* (a string as it was given); a save that wrote the file as many lines as the
\* raw buffer holds, none of them an entry line for a pair of NewPairs
NewKeyInMemoryOnly ==
    /\ result.op \in Setters =>
           /\ get_value(result.section, result.key).status = "ok"
           /\ result.op = "set_string_value" =>
                  get_value(result.section, result.key).value = result.arg
    /\ Wrote =>
           /\ Len(Written) = Len(_lines)
           /\ \A p \in NewPairs : ~HasEntryLine(Written, p[1], p[2])

\* save and commit_changes leave _data as it is; a load that follows a write
\* of the file drops every pair of NewPairs from _data
NewKeyLostOnLoad ==
    /\ result'.op \in {"save", "commit_changes"} => _data' = _data
    /\ (Wrote /\ result'.op = "load" /\ result'.status = "ok") =>
           \A p \in NewPairs : ~map_has(_data', p[1], p[2])

C5_EditsRoundTrip ==
    [][(/\ result'.op = "set_string_value"
        /\ HasEntryLine(_lines, result'.section, result'.key))
       => LET reloaded == load_tables(stream_of(save_writes(_lines', _data'))).data
          IN  /\ map_has(reloaded, result'.section, result'.key)
              /\ reloaded[result'.section][result'.key] = result'.arg
              /\ \A p \in Pairs(_data) \ {<<result'.section, result'.key>>} :
                     /\ map_has(reloaded, p[1], p[2])
                     /\ reloaded[p[1]][p[2]] = _data[p[1]][p[2]]
      ]_vars

\* C7: commit_changes with the flag set opens the file for writing at most
\* once, and exactly once when a filename is set; when that save succeeds the
\* file holds what save writes and the flag is clear; when it fails the error
\* is the call's outcome, the flag stays set and the disk is as it was. With
\* the flag clear it touches no file and changes nothing. No other step takes
\* the flag from set to clear.
C7_CommitChanges ==
    [][/\ (result'.op = "commit_changes" /\ _pendingChanges) =>
              /\ Cardinality({i \in 1..Len(ioLog') : ioLog'[i].ev = "open_write"})
                     = IF _filename = "" THEN 0 ELSE 1
              /\ result'.status = "ok" =>
                     /\ ~_pendingChanges'
                     /\ Wrote'
                     /\ disk'[_filename].content = stream_of(save_writes(_lines, _data))
              /\ result'.status # "ok" =>
                     /\ result'.status \in {"ConfigError", "IOError"}
                     /\ _pendingChanges'
                     /\ disk' = disk
              /\ UNCHANGED <<_filename, _data, _lines, _index>>
       /\ (result'.op = "commit_changes" /\ ~_pendingChanges) =>
              /\ ioLog' = <<>>
              /\ result'.status = "ok"
              /\ UNCHANGED <<_filename, _data, _lines, _index, _pendingChanges, disk>>
       /\ (_pendingChanges /\ ~_pendingChanges') =>
              (result'.op = "commit_changes" /\ result'.status = "ok")
      ]_vars

\* a commit_changes after an edit whose save failed: the flag is still set
C7_Witness ==
    /\ result.op = "commit_changes"
    /\ result.status = "IOError"
    /\ _pendingChanges
    /\ edits > 0

\* C8: whenever _data differs from the values last loaded from or saved to the
\* file, the flag is set.
C8_FlagMarksUnsaved == (_data # persisted) => _pendingChanges

\* C9: load (alone or inside set_filename) and save end in ConfigError when the
\* filename is empty, and then no file is opened and the disk and the tables
\* are as they were; otherwise they open the file once, end in IOError when
\* the open fails (a file to load that is not there cannot be opened) and
\* nothing is read or written then, and succeed when it does not fail. The
\* outcome is the outcome of the call.
C9_LoadSaveErrors ==
    [][/\ result'.op \in {"load", "set_filename", "save"} =>
              /\ result'.status \in {"ok", "ConfigError", "IOError"}
              /\ result'.status = "ConfigError" <=> _filename' = ""
              /\ _filename' = "" =>
                     /\ ioLog' = <<>>
                     /\ UNCHANGED <<_data, _lines, _index, disk>>
              /\ _filename' # "" =>
                     /\ ioLog' # <<>>
                     /\ ioLog'[1].ev = IF result'.op = "save" THEN "open_write"
                                       ELSE "open_read"
                     /\ ioLog'[1].path = _filename'
                     /\ \A i \in 2..Len(ioLog') : ioLog'[i].ev = "write"
                     /\ result'.status = IF ioLog'[1].ok THEN "ok" ELSE "IOError"
                     /\ result'.status = "IOError" =>
                            /\ Len(ioLog') = 1
                            /\ UNCHANGED <<_data, _lines, _index, disk>>
       /\ (result'.op \in {"load", "set_filename"} /\ _filename' # ""
             /\ ~disk[_filename'].exists) => result'.status = "IOError"
      ]_vars

\* a save before any filename was set, after an edit: ConfigError, no file
\* touched
C9_Witness ==
    /\ result.op = "save"
    /\ result.status = "ConfigError"
    /\ _filename = ""
    /\ ioLog = <<>>
    /\ edits > 0

\* the text is the decimal form of n: an optional '-', then digits with no
\* leading zero, read back by stoi as n
IsDecimalOf(text, n) ==
    LET digits == IF n < 0 THEN Tail(text) ELSE text
    IN  /\ text # <<>>
        /\ (n < 0) = (Head(text) = "-")
        /\ digits # <<>>
        /\ \A i \in 1..Len(digits) : IsDigit(digits[i])
        /\ (Len(digits) > 1 => digits[1] # "0")
        /\ stoi(text) = [status |-> "ok", value |-> n]

\* what a setter's step leaves under its section and key
StoredAsGiven(op, arg, text) ==
    CASE op = "set_string_value" -> text = arg
      [] op = "set_bool_value" ->
             text = IF arg THEN <<"t", "r", "u", "e">> ELSE <<"f", "a", "l", "s", "e">>
      [] op = "set_int_value" -> IsDecimalOf(text, arg)
      [] op = "set_double_value" -> stod(text).status = "ok"

\* C11: a step of set_string_value, set_bool_value, set_int_value or
\* set_double_value does not fail; after it _data holds under the section and
\* key the string form of the value ("true"/"false", the decimal text, the
\* string as given), the section being created when absent; the flag is set;
\* _lines, _index, _filename, the disk and every other entry of _data are as
\* they were.
C11_Mutators ==
    [][result'.op \in Setters =>
          \E p \in Pairs(_data') :
              /\ p = <<result'.section, result'.key>>
              /\ result'.status = "ok"
              /\ StoredAsGiven(result'.op, result'.arg, _data'[p[1]][p[2]])
              /\ _pendingChanges'
              /\ UNCHANGED <<_lines, _index, _filename, disk>>
              /\ Pairs(_data') = Pairs(_data) \cup {p}
              /\ DOMAIN _data' = DOMAIN _data \cup {p[1]}
              /\ \A q \in Pairs(_data) \ {p} : _data'[q[1]][q[2]] = _data[q[1]][q[2]]
      ]_vars

\* set_int_value of a negative number under a section the loaded file does
\* not have: the section is there with the decimal text, the flag is set
C11_Witness ==
    /\ result.op = "set_int_value"
    /\ result.arg < 0
    /\ Len(_lines) = 6
    /\ map_has(_data, <<"N">>, <<"k">>)
    /\ _data[<<"N">>][<<"k">>] = <<"-", "7">>
    /\ map_has(_data, <<"B">>, <<"k">>)
    /\ _pendingChanges

-----------------------------------------------------------------------------
(* claims about the accessors: SpecGet *)

Getters == {"get_value", "get_string_value", "get_int_value", "get_double_value",
            "get_bool_value"}

\* C6: a call of get_value or of a typed getter fails with SectionNotFound
\* exactly when the section is not in _data, and with KeyNotFound exactly when
\* the section is there and the key is not; get_value and get_string_value
\* return the stored string when the key is there.
C6_SectionKeyDistinction ==
    result.op \in Getters =>
        /\ result.status = "SectionNotFound" <=> result.section \notin DOMAIN _data
        /\ result.status = "KeyNotFound" <=>
               (/\ result.section \in DOMAIN _data
                /\ result.key \notin DOMAIN _data[result.section])
        /\ (/\ result.op \in {"get_value", "get_string_value"}
            /\ map_has(_data, result.section, result.key))
           => (/\ result.status = "ok"
               /\ result.value = _data[result.section][result.key])

\* get_double_value on a key that section A does not hold, A being there
C6_Witness ==
    /\ result.op = "get_double_value"
    /\ result.section \in DOMAIN _data
    /\ result.key \notin DOMAIN _data[result.section]
    /\ result.status = "KeyNotFound"

\* a text without its leading white space
RECURSIVE SkipSpace(_)
SkipSpace(text) ==
    IF text # <<>> /\ Head(text) \in SpaceChars THEN SkipSpace(Tail(text)) ELSE text

\* the digits a text starts with
RECURSIVE LeadingDigits(_)
LeadingDigits(text) ==
    IF text = <<>> \/ Head(text) \notin {"0", "1", "2", "3", "4", "5", "6", "7", "8", "9"}
    THEN <<>>
    ELSE <<Head(text)>> \o LeadingDigits(Tail(text))

\* a run of digits without its leading zeros, one zero kept for zero
RECURSIVE StripZeros(_)
StripZeros(digits) ==
    IF Len(digits) > 1 /\ Head(digits) = "0" THEN StripZeros(Tail(digits)) ELSE digits

\* the numeric prefix of a text: whether it starts with '-', and its digits
\* (none when the text has no numeric prefix)
NumericPrefix(text) ==
    LET body == SkipSpace(text)
        signed == body # <<>> /\ Head(body) \in {"+", "-"}
    IN  [negative |-> body # <<>> /\ Head(body) = "-",
         digits |-> LeadingDigits(IF signed THEN Tail(body) ELSE body)]

\* the digits of 2147483647 and of 2147483648, the largest magnitudes of a
\* positive and of a negative int
IntLimitDigits(negative) ==
    <<"2", "1", "4", "7", "4", "8", "3", "6", "4">> \o (IF negative THEN <<"8">> ELSE <<"7">>)

\* the number a numeric prefix denotes does not fit an int
ExceedsInt(prefix) ==
    LET d == StripZeros(prefix.digits)
    IN  \/ Len(d) > 10
        \/ Len(d) = 10 /\ \E i \in 1..10 :
               /\ \A j \in 1..(i - 1) : d[j] = IntLimitDigits(prefix.negative)[j]
               /\ DigitVal(d[i]) > DigitVal(IntLimitDigits(prefix.negative)[i])

\* the decimal digits of the magnitude of an int, the smallest int included
\* (whose magnitude is no int): a negative number is taken apart as it is
RECURSIVE MagnitudeDigits(_)
MagnitudeDigits(n) ==
    IF n >= 0 THEN nat_digits(n)
    ELSE LET d == (10 - (n % 10)) % 10
         IN  IF n > -10 THEN <<Digits[d + 1]>>
             ELSE MagnitudeDigits((n + d) \div 10) \o <<Digits[d + 1]>>

\* what get_int_value has to answer for a stored text: the status, and for
\* "ok" the integer whose decimal digits are those of the prefix
IntAnswerFits(text, status, value) ==
    LET prefix == NumericPrefix(text)
    IN  IF prefix.digits = <<>> THEN status = "InvalidFormat"
        ELSE IF ExceedsInt(prefix) THEN status = "OutOfRange"
        ELSE /\ status = "ok"
             /\ value \in Int
             /\ MagnitudeDigits(value) = StripZeros(prefix.digits)
             /\ (value < 0 => prefix.negative)
             /\ (value > 0 => ~prefix.negative)

\* the outcome of the last call, a get_int_value, against the store it left
\* as it was
IntAccessFailsFast ==
    result.op = "get_int_value" =>
        IF result.section \notin DOMAIN _data THEN result.status = "SectionNotFound"
        ELSE IF result.key \notin DOMAIN _data[result.section]
        THEN result.status = "KeyNotFound"
        ELSE IntAnswerFits(_data[result.section][result.key], result.status, result.value)

\* C12: get_int_value answers the integer of the stored text's base-10
\* numeric prefix, whatever follows the prefix; it fails with InvalidFormat
\* when there is no such prefix and with OutOfRange when the number does not
\* fit an int, and answers no number in place of a failure; a missing section
\* or key is SectionNotFound or KeyNotFound; the call changes nothing of the
\* store or the disk.
C12_FailFastIntAccess ==
    /\ []IntAccessFailsFast
    /\ [][result'.op = "get_int_value" =>
              UNCHANGED <<_filename, _data, _lines, _index, _pendingChanges, disk>>]_vars

\* get_int_value on the stored text "30abc" has answered 30
C12_Witness ==
    /\ result.op = "get_int_value"
    /\ map_has(_data, result.section, result.key)
    /\ _data[result.section][result.key] = <<"3", "0", "a", "b", "c">>
    /\ result.status = "ok"
    /\ result.value = 30

-----------------------------------------------------------------------------
(* claims about the tables of the store in use: Spec *)

\* C13: in every state, each raw line that parses as an entry line (a
\* non-empty key before its first '=', under the section of the last header
\* above it) has its key in _data under that section, with the value parsed
\* from the last such line unless a mutator has been called.
C13_EntryBufferInvariant ==
    \A i \in 1..Len(_lines) :
        LineKind(_lines[i]) = "entry" =>
            /\ map_has(_data, SectionAt(_lines, i), KeyOf(_lines[i]))
            /\ \/ edits > 0
               \/ _data[SectionAt(_lines, i)][KeyOf(_lines[i])]
                      = ValueOf(_lines[LastLineFor(_lines, i)])

-----------------------------------------------------------------------------
(* claims about a load that fails: Spec *)

\* the step is a load, alone or inside set_filename, that failed
FailedLoad == result'.op \in {"load", "set_filename"} /\ result'.status # "ok"

\* the step is a save, alone or inside commit_changes, that succeeded, right
\* after a set_filename whose load failed
SaveAfterFailedSetFilename ==
    /\ result.op = "set_filename"
    /\ result.status # "ok"
    /\ result'.op \in {"save", "commit_changes"}
    /\ result'.status = "ok"
    /\ Wrote'

\* line i as written is line i of the buffer, or the normalised form of the
\* entry it states with a value of the Entry mapping
WrittenFromBuffer(text, raw) ==
    \/ text = raw
    \/ /\ LineKind(raw) = "entry"
       /\ \E s \in DOMAIN _data :
              /\ KeyOf(raw) \in DOMAIN _data[s]
              /\ text = Normalized(KeyOf(raw), _data[s][KeyOf(raw)])

\* C16: a load that fails, for want of a filename or because the file cannot
\* be opened, leaves the Entry mapping, the Raw Line Buffer and the Line Index
\* as they were; a set_filename(p) whose load fails has made p the path all the
\* same (a failed load alone leaves the path), so the store then holds p with
\* the tables of the file before, and a save or commit_changes that follows
\* and succeeds writes the lines of that buffer, one for one, to p.
C16_FailedLoadKeepsTables ==
    [][/\ FailedLoad =>
              /\ result'.status \in {"ConfigError", "IOError"}
              /\ UNCHANGED <<_data, _lines, _index>>
              /\ result'.op = "set_filename" => _filename' = result'.arg
              /\ result'.op = "load" => UNCHANGED _filename
       /\ SaveAfterFailedSetFilename =>
              /\ _filename = result.arg
              /\ ioLog'[1].path = result.arg
              /\ \A i \in 2..Len(ioLog') : ioLog'[i].path = result.arg
              /\ Len(Written') = Len(_lines)
              /\ \A i \in 1..Len(_lines) : WrittenFromBuffer(Written'[i], _lines[i])
              /\ disk'[result.arg] = FileOf(stream_of(Written'))
      ]_vars

\* b.ini, which no load ever opened, holds the six lines of a.ini in the form
\* save gives them: the path was taken from a set_filename that failed
C16_Witness ==
    /\ result.op = "save"
    /\ result.status = "ok"
    /\ _filename = "b.ini"
    /\ edits = 0
    /\ Len(_lines) = 6
    /\ _lines[2] = <<"k", " ", "=", " ", "v", " ", ";", " ", "c">>
    /\ disk["b.ini"].exists
    /\ Len(Written) = 6
    /\ Written[2] = <<"k", " ", "=", " ", "v">>

-----------------------------------------------------------------------------
(* claims about the sections of the Entry mapping: SpecGet *)

\* the sections of a map that hold no key
KeylessSections(m) == {s \in DOMAIN m : DOMAIN m[s] = {}}

\* the sections under which the lines state an entry
SectionsWithEntries(lines) ==
    {SectionAt(lines, i) : i \in {j \in 1..Len(lines) : LineKind(lines[j]) = "entry"}}

\* the names of the header lines
HeaderNames(lines) ==
    {SubSeq(trim(lines[i]), 2, Len(trim(lines[i])) - 1) :
        i \in {j \in 1..Len(lines) : LineKind(lines[j]) = "header"}}

\* a getter names a section that is not in the mapping: SectionNotFound
AbsentSectionNotFound ==
    (result.op \in Getters /\ result.section \notin DOMAIN _data)
        => result.status = "SectionNotFound"

\* C17 as stated: in every state each section of the Entry mapping holds at
\* least one key, and a getter that names a section outside the mapping fails
\* with SectionNotFound.
C17_SectionsOnlyThroughEntries ==
    /\ KeylessSections(_data) = {}
    /\ AbsentSectionNotFound

\* right after a successful load the sections of the mapping are the sections
\* under which the file states an entry, each with a key; a header under which
\* no entry stands is not among them
LoadedSections ==
    LoadedOK =>
        /\ DOMAIN _data = SectionsWithEntries(_lines)
        /\ KeylessSections(_data) = {}
        /\ \A s \in HeaderNames(_lines) \ SectionsWithEntries(_lines) : s \notin DOMAIN _data

\* a getter on a section that is in the mapping without a key: KeyNotFound
KeylessSectionKeyNotFound ==
    (result.op \in Getters /\ result.section \in KeylessSections(_data))
        => result.status = "KeyNotFound"

\* a setter adds its section if need be and its key, and takes nothing away;
\* setData makes the mapping the one it is given; an accessor and a load that
\* failed leave the mapping; only setData brings in a section without a key
SectionsStep ==
    /\ result'.op \in Setters =>
           /\ DOMAIN _data' = DOMAIN _data \cup {result'.section}
           /\ result'.key \in DOMAIN _data'[result'.section]
           /\ \A s \in DOMAIN _data : DOMAIN _data[s] \subseteq DOMAIN _data'[s]
    /\ result'.op = "setData" => _data' = result'.arg
    /\ (result'.op \in Getters \cup {"getData"}) => UNCHANGED _data
    /\ (result'.op = "set_filename" /\ result'.status # "ok") => UNCHANGED _data
    /\ result'.op # "setData" => KeylessSections(_data') \subseteq KeylessSections(_data)

\* C17, amended: after a successful load a section is in the Entry mapping
\* exactly when an entry line with a non-empty key was parsed under it, so a
\* header without such a line leaves no section and a getter on it fails with
\* SectionNotFound; load and the set_* calls never leave a section without a
\* key. setData installs the mapping it is given, and that mapping may hold a
\* section without a key: a getter on such a section fails with KeyNotFound.
C17_SectionsThroughEntriesOrSetData ==
    /\ [](LoadedSections /\ AbsentSectionNotFound /\ KeylessSectionKeyNotFound)
    /\ [][SectionsStep]_vars

\* get_value on A, whose header is in the loaded file with no entry under it:
\* SectionNotFound, while N is there
C17_Witness ==
    /\ result.op = "get_value"
    /\ result.section = <<"A">>
    /\ result.status = "SectionNotFound"
    /\ <<"A">> \in HeaderNames(_lines)
    /\ <<"A">> \notin SectionsWithEntries(_lines)
    /\ DOMAIN _data = {<<"N">>}
    /\ edits = 0

====
